---------------------------- MODULE Spec2Model ----------------------------
(***************************************************************************)
(* A state-machine model of src/main.py: the text-to-speech player.        *)
(*                                                                         *)
(* The interactive thread runs the handlers of TextToSpeechApp, one at a   *)
(* time (Qt's event loop); each GenerateAudioThread runs run() on a thread *)
(* of its own.  A worker's audio_generated signal reaches the interactive  *)
(* thread as a queued event, held here in `signals` until the event loop   *)
(* delivers it to on_audio_generated.                                      *)
(***************************************************************************)
EXTENDS Integers, Sequences, FiniteSets, TLC

(***************************************************************************)
(* Bounds of the model.                                                    *)
(***************************************************************************)
\* The number of GenerateAudioThread objects ever created.
MaxRequests == 2

(***************************************************************************)
(* Values.                                                                 *)
(***************************************************************************)
\* str.strip() removes leading and trailing whitespace.
IsSpace(c) == c \in {" ", "\n"}

\* The texts the user types into the text area.
TypedTexts == {<<>>, <<" ", "a">>}

\* What the text area can hold: a typed text, or one with the "\n" that
\* Shift+Enter inserts.
Texts == TypedTexts \cup {<<"\n">>}

\* The response.content values the speech service returns: audio bytes.
AudioClips == {<<1>>, <<2, 2>>}

\* os.path.join(temp_dir.path(), "output.mp3"): the one scratch path.
ScratchPath == "output.mp3"

\* No such file: a value that is no byte sequence of a file.
NoFile == <<-1>>

\* The rates of speed_map, times ten.
speed_map == [s \in {"0.5x", "1.0x", "1.5x", "2.0x"} |->
                 CASE s = "0.5x" -> 5 [] s = "1.0x" -> 10
                   [] s = "1.5x" -> 15 [] s = "2.0x" -> 20]

\* self.default_speed = 1.0, times ten.
default_speed == 10

\* What QFileDialog.getSaveFileName returns: empty when the user cancels,
\* else the name the user chose.
FileNames == {<<>>, <<"c">>, <<"c", ".", "m", "p", "3">>}

\* The ".mp3" of download_audio.
Mp3 == <<".", "m", "p", "3">>

\* The slider values a user drag reports (slider.setRange(0, 100)).
SliderMoves == {0, 50, 100}

VARIABLES
    text_input,      \* the content of the QTextEdit
    submit_enabled,  \* submit_button.isEnabled()
    threads,         \* every GenerateAudioThread created, in creation order
    signals,         \* audio_generated emissions queued for the UI thread
    scratch,         \* the content of output.mp3, or NoFile
    player,          \* the QMediaPlayer
    timer_active,    \* timer.isActive()
    slider,          \* slider.value()
    speed_combo,     \* speed_combo.currentText()
    exported,        \* the file download_audio wrote last: its name and bytes
    last_ok          \* the bytes of the last synthesis that succeeded

vars == <<text_input, submit_enabled, threads, signals, scratch, player,
          timer_active, slider, speed_combo, exported, last_ok>>

ui == <<submit_enabled, player, timer_active, slider, speed_combo>>

(***************************************************************************)
(* Pure functions.                                                         *)
(***************************************************************************)
RECURSIVE LStrip(_)
LStrip(s) == IF s # <<>> /\ IsSpace(Head(s)) THEN LStrip(Tail(s)) ELSE s

RECURSIVE RStrip(_)
RStrip(s) ==
    IF s # <<>> /\ IsSpace(s[Len(s)]) THEN RStrip(SubSeq(s, 1, Len(s) - 1))
    ELSE s

\* text_input.toPlainText().strip()
Strip(s) == RStrip(LStrip(s))

\* A file opened "wb" is written from offset 0: the bytes replace what is
\* there and anything longer stays behind them.
WriteAt0(data, old) == data \o SubSeq(old, Len(data) + 1, Len(old))

\* file_name.endswith(suffix)
EndsWith(s, suffix) ==
    /\ Len(s) >= Len(suffix)
    /\ SubSeq(s, Len(s) - Len(suffix) + 1, Len(s)) = suffix

\* The duration the player finds in a file: one time unit per byte.
DurationOf(file) == IF file = NoFile THEN 0 ELSE Len(file)

\* int(a * b / c) for naturals.
IntDiv(a, b) == a \div b

(***************************************************************************)
(* The initial state: TextToSpeechApp.__init__ and initUI.                 *)
(***************************************************************************)
Init ==
    /\ text_input = <<>>
    /\ submit_enabled = TRUE
    /\ threads = <<>>
    /\ signals = <<>>
    /\ scratch = NoFile
    /\ player = [media |-> "", loaded |-> FALSE, state |-> "Stopped",
                 position |-> 0, duration |-> 0, rate |-> 10]
    /\ timer_active = FALSE
    /\ slider = 0
    /\ speed_combo = "1.0x"
    /\ exported = [name |-> <<>>, data |-> NoFile]
    /\ last_ok = NoFile

(***************************************************************************)
(* GenerateAudioThread.run, one action per step that touches shared state. *)
(***************************************************************************)
\* audio_generated.emit(path), the last thing run() does on either path:
\* the thread's locals are gone and its one result is queued.
Emit(w, path) ==
    /\ threads' = [threads EXCEPT ![w].pc = "finished",
                                  ![w].content = <<>>,
                                  ![w].emits = @ + 1]
    /\ signals' = Append(signals, path)

\* RunCreateAndOpen with an except block that logs and emits nothing.
RunCreateAndOpen_swallowed(w) ==
    /\ threads[w].pc = "create"
    /\ \/ /\ threads' = [threads EXCEPT ![w].pc = "finished"]
          /\ UNCHANGED <<signals, scratch>>
       \/ /\ \E clip \in AudioClips :
                threads' = [threads EXCEPT ![w].pc = "write",
                                           ![w].content = clip]
          /\ scratch' = <<>>
          /\ UNCHANGED signals
    /\ UNCHANGED <<text_input, ui, exported, last_ok>>

\* client.audio.speech.create(...) and open(audio_file_path, "wb"): the
\* call returns a response or raises; the open creates or truncates the
\* scratch file, or raises.  The call touches nothing shared, so the two run
\* as one step.
RunCreateAndOpen(w) ==
    /\ threads[w].pc = "create"
    /\ \/ /\ Emit(w, "")
          /\ UNCHANGED scratch
       \/ /\ \E clip \in AudioClips :
                threads' = [threads EXCEPT ![w].pc = "write",
                                           ![w].content = clip]
          /\ scratch' = <<>>
          /\ UNCHANGED signals
    /\ UNCHANGED <<text_input, ui, exported, last_ok>>

\* RunWrite with emit("") in a finally block: it runs after a success too.
RunWrite_finally(w) ==
    /\ threads[w].pc = "write"
    /\ \/ /\ scratch' = WriteAt0(threads[w].content, scratch)
          /\ last_ok' = threads[w].content
          /\ threads' = [threads EXCEPT ![w].pc = "finished",
                                        ![w].content = <<>>,
                                        ![w].emits = @ + 2]
          /\ signals' = signals \o <<ScratchPath, "">>
       \/ /\ \E k \in 0..(Len(threads[w].content) - 1) :
                scratch' = WriteAt0(SubSeq(threads[w].content, 1, k), scratch)
          /\ UNCHANGED last_ok
          /\ Emit(w, "")
    /\ UNCHANGED <<text_input, ui, exported>>

\* RunWrite with the thread re-enabling the submit button itself.
RunWrite_direct(w) ==
    /\ threads[w].pc = "write"
    /\ \/ /\ scratch' = WriteAt0(threads[w].content, scratch)
          /\ last_ok' = threads[w].content
          /\ Emit(w, ScratchPath)
       \/ /\ \E k \in 0..(Len(threads[w].content) - 1) :
                scratch' = WriteAt0(SubSeq(threads[w].content, 1, k), scratch)
          /\ UNCHANGED last_ok
          /\ Emit(w, "")
    /\ submit_enabled' = TRUE
    /\ UNCHANGED <<text_input, player, timer_active, slider, speed_combo,
                   exported>>

\* audio_file.write(response.content) and the close of the with block, then
\* emit(audio_file_path); or the write raises after k bytes reached the file.
RunWrite(w) ==
    /\ threads[w].pc = "write"
    /\ \/ /\ scratch' = WriteAt0(threads[w].content, scratch)
          /\ last_ok' = threads[w].content
          /\ Emit(w, ScratchPath)
       \/ /\ \E k \in 0..(Len(threads[w].content) - 1) :
                scratch' = WriteAt0(SubSeq(threads[w].content, 1, k), scratch)
          /\ UNCHANGED last_ok
          /\ Emit(w, "")
    /\ UNCHANGED <<text_input, ui, exported>>

\* One step of thread w's run().
WorkerRun(w) ==
    /\ w \in DOMAIN threads
    /\ (RunCreateAndOpen(w) \/ RunWrite(w))

WorkerStep == \E w \in 1..MaxRequests : WorkerRun(w)

(***************************************************************************)
(* The player (QMediaPlayer) as the handlers use it.                       *)
(***************************************************************************)
\* player.setMedia(...): binds the source; the media loads asynchronously.
SetMedia(p, path) ==
    [p EXCEPT !.media = path, !.loaded = FALSE, !.state = "Stopped",
              !.position = 0, !.duration = 0]

\* player.play(): nothing to play without a source.
Play(p) == IF p.media = "" THEN p ELSE [p EXCEPT !.state = "Playing"]

\* player.pause(): nothing to pause without a source.
Pause(p) == IF p.media = "" THEN p ELSE [p EXCEPT !.state = "Paused"]

(***************************************************************************)
(* TextToSpeechApp's handlers.                                             *)
(***************************************************************************)
\* play_audio applied to player value p.
PlayAudioFrom(p) ==
    /\ player' = Play([p EXCEPT !.rate = default_speed])
    /\ timer_active' = TRUE

\* start_audio_generation testing the text as typed, not stripped.
start_audio_generation_unstripped ==
    LET text == text_input IN
    IF text # <<>>
    THEN /\ Len(threads) < MaxRequests
         /\ submit_enabled' = FALSE
         /\ threads' = Append(threads, [pc |-> "create", text |-> text,
                                        content |-> <<>>, emits |-> 0])
         /\ UNCHANGED <<text_input, signals, scratch, player, timer_active,
                        slider, speed_combo, exported, last_ok>>
    ELSE UNCHANGED vars

start_audio_generation ==
    LET text == Strip(text_input) IN
    IF text # <<>>
    THEN /\ Len(threads) < MaxRequests
         /\ submit_enabled' = FALSE
         /\ threads' = Append(threads, [pc |-> "create", text |-> text,
                                        content |-> <<>>, emits |-> 0])
         /\ UNCHANGED <<text_input, signals, scratch, player, timer_active,
                        slider, speed_combo, exported, last_ok>>
    ELSE UNCHANGED vars

\* submit_button.clicked: a disabled button emits no click.
ClickSubmit ==
    /\ submit_enabled
    /\ start_audio_generation

\* eventFilter, Return without Shift.
KeyReturn == start_audio_generation

\* eventFilter, Shift+Return.
KeyShiftReturn ==
    /\ Append(text_input, "\n") \in Texts
    /\ text_input' = Append(text_input, "\n")
    /\ UNCHANGED <<submit_enabled, threads, signals, scratch, player,
                   timer_active, slider, speed_combo, exported, last_ok>>

\* The user edits the text area.
EditText ==
    /\ \E t \in TypedTexts : t # text_input /\ text_input' = t
    /\ UNCHANGED <<submit_enabled, threads, signals, scratch, player,
                   timer_active, slider, speed_combo, exported, last_ok>>

\* on_audio_generated without its call of play_audio.
on_audio_generated_no_play ==
    /\ signals # <<>>
    /\ LET audio_file_path == Head(signals) IN
       /\ signals' = Tail(signals)
       /\ submit_enabled' = TRUE
       /\ IF audio_file_path # ""
          THEN /\ player' = SetMedia(player, audio_file_path)
               /\ UNCHANGED timer_active
          ELSE UNCHANGED <<player, timer_active>>
    /\ UNCHANGED <<text_input, threads, scratch, slider, speed_combo,
                   exported, last_ok>>

\* The event loop delivers the oldest queued audio_generated emission.
on_audio_generated ==
    /\ signals # <<>>
    /\ LET audio_file_path == Head(signals) IN
       /\ signals' = Tail(signals)
       /\ submit_enabled' = TRUE
       /\ IF audio_file_path # ""
          THEN PlayAudioFrom(SetMedia(player, audio_file_path))
          ELSE UNCHANGED <<player, timer_active>>
    /\ UNCHANGED <<text_input, threads, scratch, slider, speed_combo,
                   exported, last_ok>>

play_audio ==
    /\ PlayAudioFrom(player)
    /\ UNCHANGED <<text_input, submit_enabled, threads, signals, scratch,
                   slider, speed_combo, exported, last_ok>>

\* pause_audio as a stop: player.stop() and timer.stop().
pause_audio_stop ==
    /\ player' = [player EXCEPT !.state = "Stopped", !.position = 0]
    /\ timer_active' = FALSE
    /\ UNCHANGED <<text_input, submit_enabled, threads, signals, scratch,
                   slider, speed_combo, exported, last_ok>>

pause_audio ==
    /\ player' = Pause(player)
    /\ UNCHANGED <<text_input, submit_enabled, threads, signals, scratch,
                   timer_active, slider, speed_combo, exported, last_ok>>

\* set_position taking the slider value for the position itself.
set_position_percent ==
    /\ \E position \in SliderMoves :
          /\ slider' = position
          /\ player' = [player EXCEPT !.position = position]
    /\ UNCHANGED <<text_input, submit_enabled, threads, signals, scratch,
                   timer_active, speed_combo, exported, last_ok>>

\* slider.sliderMoved(position): the user drags the slider.
set_position ==
    /\ \E position \in SliderMoves :
          /\ slider' = position
          /\ player' = [player EXCEPT
                          !.position = IntDiv(player.duration * position, 100)]
    /\ UNCHANGED <<text_input, submit_enabled, threads, signals, scratch,
                   timer_active, speed_combo, exported, last_ok>>

\* update_slider showing the position itself, not its share of the duration.
update_slider_unscaled ==
    /\ timer_active
    /\ IF player.duration > 0
       THEN slider' = player.position * 100
       ELSE UNCHANGED slider
    /\ UNCHANGED <<text_input, submit_enabled, threads, signals, scratch,
                   player, timer_active, speed_combo, exported, last_ok>>

\* timer.timeout
update_slider ==
    /\ timer_active
    /\ IF player.duration > 0
       THEN slider' = IntDiv(player.position * 100, player.duration)
       ELSE UNCHANGED slider
    /\ UNCHANGED <<text_input, submit_enabled, threads, signals, scratch,
                   player, timer_active, speed_combo, exported, last_ok>>

\* change_speed on a backend that restarts the media when the rate is set.
change_speed_restart ==
    /\ \E speed \in DOMAIN speed_map :
          /\ speed # speed_combo
          /\ speed_combo' = speed
          /\ player' = [player EXCEPT !.rate = speed_map[speed],
                                      !.position = 0]
    /\ UNCHANGED <<text_input, submit_enabled, threads, signals, scratch,
                   timer_active, slider, exported, last_ok>>

\* speed_combo.currentIndexChanged: the user selects another rate.
change_speed ==
    /\ \E speed \in DOMAIN speed_map :
          /\ speed # speed_combo
          /\ speed_combo' = speed
          /\ player' = [player EXCEPT !.rate = speed_map[speed]]
    /\ UNCHANGED <<text_input, submit_enabled, threads, signals, scratch,
                   timer_active, slider, exported, last_ok>>

\* download_audio appending ".mp3" to every chosen name.
download_audio_always_appends ==
    /\ IF scratch # NoFile
       THEN \E file_name \in FileNames :
               IF file_name # <<>>
               THEN exported' = [name |-> file_name \o Mp3, data |-> scratch]
               ELSE UNCHANGED exported
       ELSE UNCHANGED exported
    /\ UNCHANGED <<text_input, submit_enabled, threads, signals, scratch,
                   player, timer_active, slider, speed_combo, last_ok>>

\* download_audio: the dialog opens only when the scratch file exists, and
\* shutil.copy runs only when the user chose a name.
download_audio ==
    /\ IF scratch # NoFile
       THEN \E file_name \in FileNames :
               IF file_name # <<>>
               THEN exported' =
                      [name |-> IF EndsWith(file_name, Mp3) THEN file_name
                                ELSE file_name \o Mp3,
                       data |-> scratch]
               ELSE UNCHANGED exported
       ELSE UNCHANGED exported
    /\ UNCHANGED <<text_input, submit_enabled, threads, signals, scratch,
                   player, timer_active, slider, speed_combo, last_ok>>

(***************************************************************************)
(* The media engine's own steps.                                           *)
(***************************************************************************)
\* The media finishes loading: the duration becomes known.
MediaLoaded ==
    /\ player.media # ""
    /\ ~player.loaded
    /\ player' = [player EXCEPT !.loaded = TRUE,
                                !.duration = DurationOf(scratch)]
    /\ UNCHANGED <<text_input, submit_enabled, threads, signals, scratch,
                   timer_active, slider, speed_combo, exported, last_ok>>

\* Playback advances by one time unit, and stops at the end of the media.
PlayerAdvance ==
    /\ player.state = "Playing"
    /\ player.loaded
    /\ IF player.position < player.duration
       THEN player' = [player EXCEPT !.position = @ + 1]
       ELSE player' = [player EXCEPT !.state = "Stopped"]
    /\ UNCHANGED <<text_input, submit_enabled, threads, signals, scratch,
                   timer_active, slider, speed_combo, exported, last_ok>>

\* Every step but the rate selector's.  change_speed reads and writes only
\* speed_combo and player.rate, which no other handler and no thread reads.
CycleNext ==
    \/ EditText
    \/ KeyShiftReturn
    \/ KeyReturn
    \/ ClickSubmit
    \/ WorkerStep
    \/ on_audio_generated
    \/ play_audio
    \/ pause_audio
    \/ set_position
    \/ update_slider
    \/ download_audio
    \/ MediaLoaded
    \/ PlayerAdvance

Next ==
    \/ CycleNext
    \/ change_speed

\* The whole program.
Spec == Init /\ [][Next]_vars

\* The program with the rate selector left at its initial "1.0x".
CycleSpec == Init /\ [][CycleNext]_vars

\* The steps of a user who submits, plays and pauses, and of the threads and
\* the media engine: no seek, no rate change, no download.
ListenNext ==
    \/ EditText
    \/ KeyShiftReturn
    \/ KeyReturn
    \/ ClickSubmit
    \/ WorkerStep
    \/ on_audio_generated
    \/ play_audio
    \/ pause_audio
    \/ update_slider
    \/ MediaLoaded
    \/ PlayerAdvance

\* The program with the slider never dragged, the rate selector left at
\* "1.0x" and the download button never clicked.
ListenSpec == Init /\ [][ListenNext]_vars

\* Every step but the download button's.  download_audio writes only
\* `exported`, which nothing reads.
PlaybackNext ==
    \/ ListenNext
    \/ set_position
    \/ change_speed

\* The program with the download button never clicked.
PlaybackSpec == Init /\ [][PlaybackNext]_vars

\* The operating system schedules every started thread, and the event loop
\* delivers every queued signal.
FairSpec ==
    /\ Spec
    /\ \A w \in 1..MaxRequests : WF_vars(WorkerRun(w))
    /\ WF_vars(on_audio_generated)

(***************************************************************************)
(* Quantities the properties speak of.                                     *)
(***************************************************************************)
\* The threads still inside run().
Running == {w \in DOMAIN threads : threads[w].pc # "finished"}

\* The threads between open(..., "wb") and the end of their write.
Writers == {w \in DOMAIN threads : threads[w].pc = "write"}

\* The requests dispatched whose result on_audio_generated has not handled:
\* a thread emits once, as it finishes, and the result waits in `signals`.
InFlight == Cardinality(Running) + Len(signals)

\* The results on_audio_generated has handled.
Handled == Len(threads) - InFlight

\* This step is on_audio_generated handling a result: nothing else takes
\* a result off the queue.
HandlesResult == signals # <<>> /\ signals' = Tail(signals)

\* This step is start_audio_generation dispatching a thread.
Dispatches == Len(threads') = Len(threads) + 1

\* This step is a step of thread w's run().
StepOf(w) ==
    /\ w \in DOMAIN threads
    /\ Len(threads') = Len(threads)
    /\ threads'[w] # threads[w]

(***************************************************************************)
(* C1: at most one synthesis request is in flight at any time: the number  *)
(* of dispatched workers whose result on_audio_generated has not handled   *)
(* is 0 or 1.                                                              *)
(***************************************************************************)
C1_AtMostOneInFlight == InFlight <= 1

(***************************************************************************)
(* C2: the submit control is disabled in every state in which a request is *)
(* in flight.                                                              *)
(***************************************************************************)
C2_DisabledWhileInFlight == InFlight > 0 => ~submit_enabled

(***************************************************************************)
(* C8: the scratch file never has two concurrent writers: no two threads   *)
(* are both between opening output.mp3 for writing and finishing their     *)
(* write.                                                                  *)
(***************************************************************************)
C8_SingleWriter == Cardinality(Writers) <= 1

(***************************************************************************)
(* C3: a submit action (the button or the Return key) whose text is empty  *)
(* or whitespace-only after trimming changes nothing: no thread is         *)
(* created, and the submit control, the player, the timer and the scratch  *)
(* file stay as they are.                                                  *)
(***************************************************************************)
C3_BlankSubmitIsNoOp ==
    [][(KeyReturn \/ ClickSubmit) /\ Strip(text_input) = <<>>
         => UNCHANGED vars]_vars

\* A whitespace-only text in the text area with the submit control enabled
\* and a clip playing: a submit here has state to preserve.
C3_Witness ==
    /\ text_input = <<"\n">>
    /\ submit_enabled
    /\ player.state = "Playing"
    /\ timer_active
    /\ scratch \in AudioClips

(***************************************************************************)
(* C4: handling a result that is a valid path loads it into the player,    *)
(* starts playback (the player is Playing, from position 0, with the       *)
(* polling timer active) and re-enables the submit control, in that one    *)
(* step.                                                                   *)
(***************************************************************************)
C4_SuccessLoadsAndPlays ==
    [][HandlesResult /\ Head(signals) # ""
         => /\ player'.media = Head(signals)
            /\ player'.state = "Playing"
            /\ player'.position = 0
            /\ timer_active'
            /\ submit_enabled']_vars

\* The first valid path has just been handled.
C4_Witness ==
    /\ Handled = 1
    /\ InFlight = 0
    /\ player.media = ScratchPath
    /\ ~player.loaded
    /\ player.state = "Playing"
    /\ timer_active
    /\ submit_enabled

(***************************************************************************)
(* C5: when a request fails, handling the failure marker re-enables the    *)
(* submit control and leaves the player as it is, and the scratch file     *)
(* holds the content of the previous successful synthesis, or is absent    *)
(* when there was none.                                                    *)
(***************************************************************************)
C5_FailureKeepsArtifact ==
    [][HandlesResult /\ Head(signals) = ""
         => /\ submit_enabled'
            /\ player' = player
            /\ scratch' = last_ok']_vars

(***************************************************************************)
(* C6: every thread emits exactly one result, as it finishes, and never    *)
(* another: the scratch path only after it wrote its whole response to the *)
(* file, the empty failure marker when the API call, the open or the write *)
(* failed; no thread ends without a result.                                *)
(***************************************************************************)
C6_ExactlyOneResult ==
    [][/\ Dispatches => threads'[Len(threads')].emits = 0
       /\ \A w \in DOMAIN threads : StepOf(w) =>
            LET ends   == threads'[w].pc = "finished"
                data   == threads[w].content
                wrote  == /\ threads[w].pc = "write"
                          /\ scratch' # NoFile
                          /\ Len(scratch') >= Len(data)
                          /\ SubSeq(scratch', 1, Len(data)) = data
            IN  /\ threads[w].pc # "finished"
                /\ threads[w].emits = 0
                /\ threads'[w].emits = IF ends THEN 1 ELSE 0
                /\ ~ends => signals' = signals
                /\ ends => /\ Len(signals') = Len(signals) + 1
                           /\ SubSeq(signals', 1, Len(signals)) = signals
                           /\ signals'[Len(signals')] \in {"", ScratchPath}
                           /\ signals'[Len(signals')] = ScratchPath => wrote
                           /\ ~wrote => signals'[Len(signals')] = ""]_vars

\* Two threads have finished, one with the path and one with the failure
\* marker, each with one result emitted.
C6_Witness ==
    /\ Len(threads) >= 2
    /\ \A w \in DOMAIN threads : threads[w].pc = "finished"
                                    /\ threads[w].emits = 1
    /\ signals = <<ScratchPath, "">>

(***************************************************************************)
(* C7: every dispatched request resolves: once the submit control is       *)
(* disabled it is eventually enabled again, and the result of every        *)
(* dispatched request is eventually handled, whatever the user does        *)
(* meanwhile.                                                              *)
(***************************************************************************)
C7_EveryRequestResolves ==
    /\ ~submit_enabled ~> submit_enabled
    /\ \A n \in 1..MaxRequests : (Len(threads) >= n) ~> (Handled >= n)

\* Two requests were dispatched and both results handled, with the user
\* having paused playback meanwhile.
C7_Witness ==
    /\ Handled >= 2
    /\ InFlight = 0
    /\ submit_enabled
    /\ player.state = "Paused"

(***************************************************************************)
(* C9: once a synthesis has succeeded and every request has resolved, the  *)
(* scratch file exists and holds exactly the bytes of the most recently    *)
(* completed successful synthesis.                                         *)
(***************************************************************************)
C9_ScratchIsLastSynthesis ==
    (last_ok # NoFile /\ InFlight = 0) => scratch = last_ok

(***************************************************************************)
(* C10: a step of a thread's run() leaves the submit control, the player,  *)
(* the timer, the slider and the rate selector as they are; the submit     *)
(* control is re-enabled and media is loaded only by on_audio_generated    *)
(* handling a result; start_audio_generation returns with the new thread   *)
(* still before its synthesis call.                                        *)
(***************************************************************************)
C10_WorkerLeavesInterfaceAlone ==
    [][/\ (\E w \in DOMAIN threads : StepOf(w)) => UNCHANGED ui
       /\ (~submit_enabled /\ submit_enabled') => HandlesResult
       /\ player'.media # player.media => HandlesResult
       /\ Dispatches => /\ threads'[Len(threads')].pc = "create"
                        /\ scratch' = scratch]_vars

\* A thread has finished and its result waits for the event loop, the
\* submit control still disabled.
C10_Witness ==
    /\ signals # <<>>
    /\ ~submit_enabled
    /\ \E w \in DOMAIN threads : threads[w].pc = "finished"

(***************************************************************************)
(* C11: a play action applies the current rate: right after play_audio, by *)
(* the Play button or by on_audio_generated starting a new clip, the       *)
(* player's rate is the one selected in the rate selector.                 *)
(***************************************************************************)
C11_PlayAppliesSelectedRate ==
    [][play_audio \/ (HandlesResult /\ Head(signals) # "")
         => player'.rate = speed_map[speed_combo']]_vars

(***************************************************************************)
(* C12: a rate change sets the player's rate to the selected preset, one   *)
(* of 0.5, 1.0, 1.5 and 2.0, and changes nothing else of the player (its   *)
(* position, media and state stay), nor the timer, the slider or the       *)
(* submit control; applying the same selection again changes nothing.      *)
(***************************************************************************)
C12_RateChangeKeepsPosition ==
    [][speed_combo' # speed_combo
         => /\ speed_combo' \in {"0.5x", "1.0x", "1.5x", "2.0x"}
            /\ player'.rate = speed_map[speed_combo']
            /\ player'.rate \in {5, 10, 15, 20}
            /\ player' = [player EXCEPT !.rate = speed_map[speed_combo']]
            /\ [player' EXCEPT !.rate = speed_map[speed_combo']] = player'
            /\ UNCHANGED <<text_input, submit_enabled, threads, signals,
                           scratch, timer_active, slider, exported,
                           last_ok>>]_vars

\* "2.0x" has been selected in the middle of a clip that is playing.
C12_Witness ==
    /\ speed_combo = "2.0x"
    /\ player.rate = 20
    /\ player.state = "Playing"
    /\ player.position > 0
    /\ player.position < player.duration
    /\ timer_active

(***************************************************************************)
(* C13: a seek with slider value x in 0..100 sets the player's position to *)
(* D*x/100, truncated, when the duration D is greater than 0, a value in   *)
(* 0..D; when D is 0 it leaves the player, its position included, and all  *)
(* other state as they are (the slider itself is where the user dragged    *)
(* it).                                                                    *)
(***************************************************************************)
C13_SeekScalesByDuration ==
    [][set_position
         => LET x == slider'
                D == player.duration
            IN  /\ x \in 0..100
                /\ D > 0 => /\ player'.position = (D * x) \div 100
                            /\ player'.position \in 0..D
                            /\ player' = [player EXCEPT
                                            !.position = player'.position]
                /\ D = 0 => player' = player
                /\ UNCHANGED <<text_input, submit_enabled, threads, signals,
                               scratch, timer_active, speed_combo, exported,
                               last_ok>>]_vars

\* The slider has been dragged to 50 on a clip one time unit long: the
\* position is 1*50/100, truncated to 0.
C13_Witness ==
    /\ player.loaded
    /\ player.duration = 1
    /\ slider = 50
    /\ player.position = 0

(***************************************************************************)
(* C14: while no synthesis has succeeded, failed requests and a first      *)
(* request still running included, download_audio has written no           *)
(* destination file.                                                       *)
(***************************************************************************)
C14_NoDownloadBeforeSuccess ==
    last_ok = NoFile => exported = [name |-> <<>>, data |-> NoFile]

(***************************************************************************)
(* C15: handling the result of every successful synthesis leaves the       *)
(* player Playing and the position indicator at 0 for the new clip, and    *)
(* while the player stays Playing and the indicator is below 100 no step   *)
(* lowers the indicator (the slider is never dragged in ListenSpec).       *)
(***************************************************************************)
C15_IndicatorStartsAtZeroAndRises ==
    [][/\ HandlesResult /\ Head(signals) # ""
            => player'.state = "Playing" /\ slider' = 0
       /\ player.state = "Playing" /\ player'.state = "Playing"
            /\ slider < 100
            => slider' >= slider]_vars

(***************************************************************************)
(* C16: a submit action with a text that is non-empty after trimming       *)
(* disables the submit control and dispatches exactly one thread, whatever *)
(* the player's state; when the result of a successful request is handled  *)
(* the player holds the scratch path and the file there is the complete    *)
(* response of a synthesis; and once every request has resolved the file   *)
(* loaded in the player is the complete response of a synthesis.           *)
(***************************************************************************)
C16_SubmitRestartsTheCycle ==
    [][/\ (KeyReturn \/ ClickSubmit) /\ Strip(text_input) # <<>>
            => /\ ~submit_enabled'
               /\ Len(threads') = Len(threads) + 1
               /\ threads'[Len(threads')].pc = "create"
       /\ HandlesResult /\ Head(signals) # ""
            => /\ player'.media = ScratchPath
               /\ scratch' \in AudioClips
       /\ InFlight' = 0 /\ player'.media = ScratchPath
            => scratch' \in AudioClips]_vars

(***************************************************************************)
(* C17: the position indicator holds a value in 0..100 in every state: the *)
(* position lies within the duration, so the share a poll computes when    *)
(* the duration is greater than 0 lies in 0..100; and a poll that finds a  *)
(* duration not greater than 0 leaves the indicator as it is.              *)
(***************************************************************************)
C17_IndicatorWithinRange ==
    /\ [](/\ slider \in 0..100
          /\ player.duration >= 0
          /\ player.position \in 0..player.duration
          /\ player.duration > 0
               => (player.position * 100) \div player.duration \in 0..100)
    /\ [][update_slider /\ player.duration <= 0 => slider' = slider]_vars

\* The timer polls a player whose media has no duration, the indicator
\* showing the end of an earlier clip.
C17_Witness ==
    /\ timer_active
    /\ player.media = ScratchPath
    /\ player.duration = 0
    /\ slider = 100
    /\ speed_combo = "1.5x"

C19_NeverReadWhileWritten ==
    /\ Writers # {} => player.media # ScratchPath
    /\ exported.data \in AudioClips \cup {NoFile}

(***************************************************************************)
(* C20: every step in which download_audio writes a file happens with the  *)
(* scratch file present and writes its bytes under a name that ends in     *)
(* ".mp3": the chosen name itself when it ends in ".mp3" already, else the *)
(* chosen name with ".mp3" appended once; the chosen name is never empty   *)
(* (a cancelled dialog writes nothing); and no download step changes the   *)
(* scratch file, the player or the submit control.                         *)
(***************************************************************************)
C20_DownloadNameEndsInMp3 ==
    [][/\ exported' # exported
            => /\ scratch # NoFile
               /\ exported'.data = scratch
               /\ EndsWith(exported'.name, Mp3)
               /\ \E chosen \in FileNames \ {<<>>} :
                     \/ EndsWith(chosen, Mp3) /\ exported'.name = chosen
                     \/ ~EndsWith(chosen, Mp3)
                           /\ exported'.name = chosen \o Mp3
       /\ download_audio \/ exported' # exported
            => UNCHANGED <<scratch, player, submit_enabled, timer_active,
                           slider, threads, signals>>]_vars

\* A complete clip has been saved as "c.mp3".
C20_Witness ==
    /\ exported.name = <<"c", ".", "m", "p", "3">>
    /\ exported.data \in AudioClips
    /\ exported.data = scratch
    /\ player.media = ScratchPath

=============================================================================
